---- MODULE Spec2Model ----
(* Job-description extraction / enhancement service (my_jd_extraction_api). *)
(* Text is a sequence of tokens; a Python or JSON value is a record        *)
(* [t |-> tag, v |-> token sequence], so that a string "true" and the      *)
(* boolean true are different values.                                      *)
EXTENDS Integers, Sequences, FiniteSets, TLC

(***************************************************************************)
(* Token sequences                                                         *)
(***************************************************************************)
Range(s) == {s[i] : i \in 1..Len(s)}

Contains(s, tok) == tok \in Range(s)

IsWs(c) == c \in {" ", "\n"}

RECURSIVE LStrip(_)
LStrip(s) == IF s # <<>> /\ IsWs(Head(s)) THEN LStrip(Tail(s)) ELSE s

RECURSIVE RStrip(_)
RStrip(s) == IF s # <<>> /\ IsWs(s[Len(s)]) THEN RStrip(SubSeq(s, 1, Len(s) - 1)) ELSE s

\* str.strip()
Strip(s) == RStrip(LStrip(s))

RECURSIVE Join(_, _)
\* sep.join(parts), parts a sequence of token sequences
Join(sep, parts) ==
  IF parts = <<>> THEN <<>>
  ELSE IF Len(parts) = 1 THEN parts[1]
  ELSE parts[1] \o sep \o Join(sep, Tail(parts))

RECURSIVE Concat(_)
Concat(parts) == IF parts = <<>> THEN <<>> ELSE Head(parts) \o Concat(Tail(parts))

\* str.endswith(suf)
EndsWith(s, suf) ==
  /\ Len(suf) <= Len(s)
  /\ SubSeq(s, Len(s) - Len(suf) + 1, Len(s)) = suf

LowerChar(c) ==
  CASE c = "P" -> "p" [] c = "D" -> "d" [] c = "F" -> "f"
    [] c = "J" -> "j" [] c = "G" -> "g" [] c = "N" -> "n"
    [] c = "S" -> "s" [] c = "O" -> "o"
    [] OTHER -> c

\* str.lower()
Lower(s) == [i \in 1..Len(s) |-> LowerChar(s[i])]

\* sub in s, both sequences of characters
HasSubstring(s, sub) ==
  \E i \in 1..(Len(s) - Len(sub) + 1) : SubSeq(s, i, i + Len(sub) - 1) = sub

(***************************************************************************)
(* JSON values of a model reply, and Python values of a validated mapping  *)
(***************************************************************************)
Absent    == [t |-> "absent", v |-> <<>>]
JNull     == [t |-> "null", v |-> <<>>]
JStr(s)   == [t |-> "str", v |-> s]
JBool(b)  == [t |-> "bool", v |-> IF b THEN <<"true">> ELSE <<"false">>]
JInt(n)   == [t |-> "int", v |-> <<n>>]
JList(s)  == [t |-> "list", v |-> s]

PyNone    == [t |-> "none", v |-> <<>>]
PyStr(s)  == [t |-> "str", v |-> s]
PyBool(b) == [t |-> "bool", v |-> IF b THEN <<"true">> ELSE <<"false">>]
PyList(s) == [t |-> "list", v |-> s]
PyDict    == [t |-> "dict", v |-> <<>>]

\* one line of a pydantic ValidationError
VErr(loc, type, input) == [loc |-> loc, type |-> type, input |-> input]

Ok(val)   == [val |-> val, errs |-> <<>>]
Bad(err)  == [val |-> PyNone, errs |-> <<err>>]

\* the strings pydantic coerces to a boolean in lax mode
TrueWords  == {"1", "on", "t", "true", "y", "yes"}
FalseWords == {"0", "off", "f", "false", "n", "no"}

\* field: str = Field(...)
ValidateRequiredStr(loc, raw) ==
  CASE raw.t = "absent" -> Bad(VErr(loc, "missing", <<>>))
    [] raw.t = "str"    -> Ok(PyStr(raw.v))
    [] OTHER            -> Bad(VErr(loc, "string_type", raw.v))

\* field: Optional[str] = Field(None)
ValidateOptionalStr(loc, raw) ==
  CASE raw.t \in {"absent", "null"} -> Ok(PyNone)
    [] raw.t = "str"                -> Ok(PyStr(raw.v))
    [] OTHER                        -> Bad(VErr(loc, "string_type", raw.v))

\* a list field declared Optional[List[str]] = None
ValidateStrListNullable(loc, raw) ==
  CASE raw.t = "absent" -> Ok(PyNone)
    [] raw.t = "list"   -> Ok(PyList(raw.v))
    [] OTHER            -> Bad(VErr(loc, "list_type", raw.v))

\* field: List[str] = Field(default_factory=list)
ValidateStrList(loc, raw) ==
  CASE raw.t = "absent" -> Ok(PyList(<<>>))
    [] raw.t = "list"   -> Ok(PyList(raw.v))
    [] OTHER            -> Bad(VErr(loc, "list_type", raw.v))

\* field: Dict[str, List[str]] = Field(default_factory=dict)
ValidateDict(loc, raw) ==
  CASE raw.t = "absent" -> Ok(PyDict)
    [] raw.t = "dict"   -> Ok(PyDict)
    [] OTHER            -> Bad(VErr(loc, "dict_type", raw.v))

\* field: Optional[bool] = Field(None)
ValidateOptionalBool(loc, raw) ==
  CASE raw.t \in {"absent", "null"} -> Ok(PyNone)
    [] raw.t = "bool" -> Ok(PyBool(raw.v = <<"true">>))
    [] raw.t \in {"str", "int"} ->
         IF Len(raw.v) = 1 /\ raw.v[1] \in TrueWords THEN Ok(PyBool(TRUE))
         ELSE IF Len(raw.v) = 1 /\ raw.v[1] \in FalseWords THEN Ok(PyBool(FALSE))
         ELSE Bad(VErr(loc, "bool_parsing", raw.v))
    [] OTHER -> Bad(VErr(loc, "bool_type", raw.v))

(***************************************************************************)
(* The schema: each sub-record is a sequence of <<field name, field kind>> *)
(***************************************************************************)
BasicJobInfo ==
  << <<"job_title", "rstr">>, <<"job_code", "ostr">>, <<"job_level", "ostr">>,
     <<"department", "ostr">>, <<"job_category", "ostr">> >>

JobPostingMetadata ==
  << <<"contract_duration", "ostr">>, <<"time_commitment", "ostr">> >>

DetailedRoleDescription ==
  << <<"job_summary", "rstr">>, <<"daily_tasks", "list">>,
     <<"performance_indicators", "list">>, <<"decision_making_authority", "ostr">>,
     <<"stakeholder_interactions", "list">> >>

RequirementsBreakdown ==
  << <<"required_qualifications", "list">>, <<"preferred_qualifications", "list">>,
     <<"mandatory_certifications", "list">>, <<"legal_eligibility", "ostr">>,
     <<"background_checks", "ostr">>, <<"clearance_level", "ostr">> >>

SkillsClassification ==
  << <<"hard_skills", "list">>, <<"soft_skills", "list">>, <<"domain_expertise", "list">>,
     <<"methodologies", "list">>, <<"languages", "list">>, <<"skills_priority", "dict">> >>

CompensationDetails ==
  << <<"base_salary", "ostr">>, <<"bonus_structure", "ostr">>, <<"equity", "ostr">>,
     <<"benefits", "list">>, <<"relocation_assistance", "obool">>,
     <<"visa_sponsorship", "obool">> >>

WorkEnvironment ==
  << <<"work_model", "ostr">>, <<"locations", "list">>,
     <<"travel_requirements", "ostr">>, <<"shift_type", "ostr">> >>

CareerPathInfo ==
  << <<"growth_opportunities", "ostr">>, <<"training_programs", "list">>,
     <<"mentorship", "ostr">>, <<"succession_planning", "ostr">>,
     <<"culture_page_link", "ostr">>, <<"careers_page_link", "ostr">> >>

\* the sub-records of JobDescriptionSchema: <<name, schema, required>>
JobDescriptionSchema ==
  << <<"basic_info", BasicJobInfo, TRUE>>,
     <<"posting_metadata", JobPostingMetadata, FALSE>>,
     <<"role_description", DetailedRoleDescription, TRUE>>,
     <<"requirements", RequirementsBreakdown, FALSE>>,
     <<"skills", SkillsClassification, FALSE>>,
     <<"compensation", CompensationDetails, FALSE>>,
     <<"work_environment", WorkEnvironment, FALSE>>,
     <<"career_path", CareerPathInfo, FALSE>> >>

FieldNames(schema) == {schema[i][1] : i \in 1..Len(schema)}

SubNames == {JobDescriptionSchema[i][1] : i \in 1..Len(JobDescriptionSchema)}

\* validation of one field by its declared kind
ValidateField(kind, loc, raw) ==
  CASE kind = "rstr"  -> ValidateRequiredStr(loc, raw)
    [] kind = "ostr"  -> ValidateOptionalStr(loc, raw)
    [] kind = "list"  -> ValidateStrList(loc, raw)
    [] kind = "dict"  -> ValidateDict(loc, raw)
    [] kind = "obool" -> ValidateOptionalBool(loc, raw)

\* a JSON object for a sub-record: st is "obj", "absent" or "null"
RawSub(schema, given) ==
  [st |-> "obj",
   f  |-> [n \in FieldNames(schema) |-> IF n \in DOMAIN given THEN given[n] ELSE Absent]]

RawSubMissing(schema, st) == [st |-> st, f |-> [n \in FieldNames(schema) |-> Absent]]

RECURSIVE FieldErrs(_, _, _)
FieldErrs(schema, raw, i) ==
  IF i > Len(schema) THEN <<>>
  ELSE ValidateField(schema[i][2], schema[i][1], raw.f[schema[i][1]]).errs
       \o FieldErrs(schema, raw, i + 1)

\* validation of a sub-record; an absent optional sub-record is built by its
\* default factory, that is from no input at all
ValidateSub(name, schema, required, raw) ==
  IF raw.st = "absent" /\ required
    THEN [val |-> [n \in FieldNames(schema) |-> PyNone],
          errs |-> <<VErr(name, "missing", <<>>)>>]
  ELSE IF raw.st = "null"
    THEN [val |-> [n \in FieldNames(schema) |-> PyNone],
          errs |-> <<VErr(name, "model_type", <<>>)>>]
  ELSE [val  |-> [n \in FieldNames(schema) |->
                    LET k == CHOOSE i \in 1..Len(schema) : schema[i][1] = n
                    IN ValidateField(schema[k][2], n, raw.f[n]).val],
        errs |-> FieldErrs(schema, raw, 1)]

RECURSIVE SubErrs(_, _)
SubErrs(rawjd, i) ==
  IF i > Len(JobDescriptionSchema) THEN <<>>
  ELSE LET e == JobDescriptionSchema[i]
       IN ValidateSub(e[1], e[2], e[3], rawjd.sub[e[1]]).errs \o SubErrs(rawjd, i + 1)

\* JobDescriptionSchema.model_validate followed by model_dump
ValidateJD(rawjd) ==
  LET ot == ValidateOptionalStr("original_text", rawjd.original_text)
  IN [val  |-> [sub |-> [n \in SubNames |->
                           LET k == CHOOSE i \in 1..Len(JobDescriptionSchema) :
                                      JobDescriptionSchema[i][1] = n
                               e == JobDescriptionSchema[k]
                           IN ValidateSub(e[1], e[2], e[3], rawjd.sub[n]).val],
                 original_text |-> ot.val],
      errs |-> SubErrs(rawjd, 1) \o ot.errs]

(***************************************************************************)
(* Exceptions and results                                                  *)
(***************************************************************************)
NoJD == [sub |-> <<>>, original_text |-> PyNone]

NoExc == [cls |-> "none", msg |-> <<>>]

Exc(cls, msg) == [cls |-> cls, msg |-> msg]

\* a result of a call: kind is "return" or "raise"
Return(value) == [kind |-> "return", value |-> value, exc |-> NoExc]

Raise(exc) ==
  [kind |-> "raise", value |-> [type |-> "none", key |-> "", jd |-> NoJD, message |-> PyNone],
   exc |-> exc]

NoResult ==
  [kind |-> "none", value |-> [type |-> "none", key |-> "", jd |-> NoJD, message |-> PyNone],
   exc |-> NoExc]

\* a dict {key: jd, "message": message}, as model_dump returns it
Mapping(key, jd, message) == [type |-> "mapping", key |-> key, jd |-> jd, message |-> message]

\* the coroutine object a call of an async function returns; its body has
\* not run
Coroutine(fn) == [type |-> "coroutine", key |-> fn, jd |-> NoJD, message |-> PyNone]

RECURSIVE ErrText(_)
\* str(ValidationError): for each error its location, its type and the
\* input value it echoes
ErrText(errs) ==
  IF errs = <<>> THEN <<>>
  ELSE <<Head(errs).loc, Head(errs).type>> \o Head(errs).input \o ErrText(Tail(errs))

(***************************************************************************)
(* Structured-Response Requester                                           *)
(***************************************************************************)
DefaultMessage(key) ==
  IF key = "extracted_jd" THEN PyStr(<<"Job description extracted successfully">>)
  ELSE PyStr(<<"Job description enhanced successfully">>)

\* response_schema.model_validate_json(response_content).model_dump()
ModelValidateJson(reply, key) ==
  IF ~reply.json THEN Raise(Exc("ValidationError", <<"json_invalid">>))
  ELSE LET jd   == IF reply.wrapper = "asked" THEN ValidateJD(reply.jd)
                   ELSE [val |-> NoJD, errs |-> <<VErr(key, "missing", <<>>)>>]
           msg  == IF reply.message.t = "absent" THEN Ok(DefaultMessage(key))
                   ELSE ValidateRequiredStr("message", reply.message)
           errs == jd.errs \o msg.errs
       IN IF errs = <<>> THEN Return(Mapping(key, jd.val, msg.val))
          ELSE Raise(Exc("ValidationError", ErrText(errs)))

\* a Requester that calls the model again when the reply does not validate
IssuedCallsRetry(reply, key, tag) ==
  IF reply.transport = "ok" /\ ModelValidateJson(reply, key).kind = "raise"
    THEN <<tag, tag>>
  ELSE <<tag>>

\* the model calls one invocation of extract_with_schema issues, by the tag of
\* its prompt pair: the one create() call, made before the reply is known
IssuedCalls(reply, key, tag) == <<tag>>

\* GPTService.extract_with_schema, given the reply the model makes to the call
ExtractWithSchema(reply, key) ==
  LET res == IF reply.transport # "ok" THEN Raise(Exc("APIError", reply.error))
             ELSE ModelValidateJson(reply, key)
  IN IF res.kind = "return" THEN res
     ELSE Raise(Exc("Exception", <<"GPT extraction failed:">> \o res.exc.msg))

(***************************************************************************)
(* Model replies a request may meet                                        *)
(***************************************************************************)
GoodBasic ==
  RawSub(BasicJobInfo, [job_title |-> JStr(<<"Senior", "Backend", "Engineer">>),
                        job_code  |-> JStr(<<"ABC123">>)])

GoodRole ==
  RawSub(DetailedRoleDescription, [job_summary |-> JStr(<<"Builds", "services">>),
                                   daily_tasks |-> JList(<<"Task 1", "Task 2">>)])

GoodComp ==
  RawSub(CompensationDetails, [base_salary |-> JStr(<<"$120,000">>),
                               benefits |-> JList(<<"Health insurance">>),
                               relocation_assistance |-> JBool(TRUE),
                               visa_sponsorship |-> JBool(FALSE)])

GoodSubs ==
  [basic_info       |-> GoodBasic,
   posting_metadata |-> RawSub(JobPostingMetadata, [time_commitment |-> JStr(<<"Full-time">>)]),
   role_description |-> GoodRole,
   requirements     |-> RawSub(RequirementsBreakdown, [legal_eligibility |-> JNull]),
   skills           |-> RawSubMissing(SkillsClassification, "absent"),
   compensation     |-> GoodComp,
   work_environment |-> RawSub(WorkEnvironment, [work_model |-> JStr(<<"Remote">>)]),
   career_path      |-> RawSubMissing(CareerPathInfo, "absent")]

\* a reply: the transport's outcome, whether the content is JSON, whether its
\* top-level object has the key the prompt asks for, and the object
Reply(subs, original_text) ==
  [transport |-> "ok", error |-> <<>>, json |-> TRUE, wrapper |-> "asked",
   jd |-> [sub |-> subs, original_text |-> original_text], message |-> Absent]

WithComp(given) == [GoodSubs EXCEPT !.compensation = RawSub(CompensationDetails, given)]

ReplyGood == Reply(GoodSubs, JStr(<<"text", "rewritten", "by", "the", "model">>))

\* booleans sent as the strings and numbers pydantic coerces
ReplyWordBool ==
  Reply(WithComp([relocation_assistance |-> JStr(<<"yes">>), visa_sponsorship |-> JInt("0")]),
        Absent)

ReplyNullBool == Reply(WithComp([relocation_assistance |-> JNull]), JNull)

ReplyNoComp ==
  Reply([GoodSubs EXCEPT !.compensation = RawSubMissing(CompensationDetails, "absent")], Absent)

ReplyEmptyTitle ==
  Reply([GoodSubs EXCEPT
           !.basic_info = RawSub(BasicJobInfo, [job_title |-> JStr(<<>>)]),
           !.role_description = RawSub(DetailedRoleDescription, [job_summary |-> JStr(<<>>)])],
        Absent)

\* a text description in a boolean field
ReplyTextBool ==
  Reply(WithComp([relocation_assistance |-> JStr(<<"Available", "for", "senior", "hires">>),
                  visa_sponsorship |-> JBool(TRUE)]),
        Absent)

\* a list in a boolean field
ReplyListBool ==
  Reply(WithComp([relocation_assistance |-> JBool(TRUE),
                  visa_sponsorship |-> JList(<<"H1B">>)]),
        Absent)

ReplyNoTitle ==
  Reply([GoodSubs EXCEPT !.basic_info = RawSub(BasicJobInfo, [job_code |-> JStr(<<"ABC123">>)])],
        Absent)

\* a wrongly typed title whose value, echoed in the error text, holds the
\* words of an error type
ReplyEchoTitle ==
  Reply([GoodSubs EXCEPT
           !.basic_info = RawSub(BasicJobInfo, [job_title |-> JList(<<"bool_parsing">>)])],
        Absent)

ReplyNoWrapper == [ReplyGood EXCEPT !.wrapper = "absent"]

ReplyBadJson == [ReplyGood EXCEPT !.json = FALSE]

ReplyTimeout == [ReplyGood EXCEPT !.transport = "timeout", !.error = <<"Request timed out.">>]

Replies ==
  {ReplyGood, ReplyWordBool, ReplyNullBool, ReplyNoComp, ReplyEmptyTitle, ReplyTextBool,
   ReplyListBool, ReplyNoTitle, ReplyEchoTitle, ReplyNoWrapper, ReplyBadJson, ReplyTimeout}

(***************************************************************************)
(* Document Text Extractor                                                 *)
(***************************************************************************)
NL == <<"\n">>

\* what the library reads from a buffer: its format, the text of its pages
\* or paragraphs, the link targets of its annotations, and the header and
\* footer paragraphs
FilePdf ==
  [format |-> "pdf",
   parts  |-> << <<"Senior", " ", "Backend", " ", "Engineer", "\n">>, <<"Remote", "\n", " ">> >>,
   links  |-> <<"https://acme.example/jobs">>,
   header_footer |-> <<>>]

FileDocx ==
  [format |-> "docx",
   parts  |-> << <<"Senior", " ", "Backend", " ", "Engineer">>, <<"Remote">> >>,
   links  |-> <<"rId4">>,
   header_footer |-> << <<"Acme", " ", "Corp">> >>]

FileImage ==
  [format |-> "image",
   parts  |-> << <<" ", "Hiring", " ", "Engineers", "\n", "\n">> >>,
   links  |-> <<>>,
   header_footer |-> <<>>]

\* a PDF without link annotations
FilePdfPlain ==
  [format |-> "pdf",
   parts  |-> << <<"Senior", " ", "Backend", " ", "Engineer">> >>,
   links  |-> <<>>,
   header_footer |-> <<>>]

FileGarbage == [format |-> "garbage", parts |-> <<>>, links |-> <<>>, header_footer |-> <<>>]

Files == {FilePdf, FilePdfPlain, FileDocx, FileImage, FileGarbage}

Filenames ==
  { <<"j", "d", ".", "p", "d", "f">>,
    <<"J", "D", ".", "P", "D", "F">>,
    <<"j", "d", ".", "d", "o", "c", "x">>,
    <<"a", ".", "p", "n", "g">>,
    <<"a", ".", "j", "p", "g">>,
    <<"a", ".", "J", "p", "e", "g">>,
    <<"a", ".", "g", "i", "f">>,
    <<"r", "e", "s", "u", "m", "e", ".", "t", "x", "t">>,
    <<"j", "d", ".", "p", "d", "f", ".", "t", "x", "t">>,
    <<"p", "d", "f">> }

Singletons(s) == [i \in 1..Len(s) |-> <<s[i]>>]

\* parse_pdf
ParsePdf(file) ==
  IF file.format # "pdf" THEN Raise(Exc("PdfReadError", <<"EOF marker not found">>))
  ELSE Return(Strip(Concat(file.parts)) \o NL \o Join(NL, Singletons(file.links)))

\* parse_docx: a w:hyperlink element is the parent of its runs, never a child
\* of one, so the xpath on a run selects nothing and hyperlinks stays empty
ParseDocx(file) ==
  IF file.format # "docx" THEN Raise(Exc("BadZipFile", <<"File is not a zip file">>))
  ELSE LET text == Concat([i \in 1..Len(file.parts) |-> file.parts[i] \o NL])
           hyperlinks == <<>>
           header_footer_text ==
             Concat([i \in 1..Len(file.header_footer) |-> file.header_footer[i] \o NL])
       IN Return(Strip(text) \o NL \o Join(NL, hyperlinks) \o NL \o Strip(header_footer_text))

\* image_to_text
ImageToText(file) ==
  IF file.format # "image"
    THEN Raise(Exc("UnidentifiedImageError", <<"cannot identify image file">>))
  ELSE Return(Strip(Concat(file.parts)))

\* parse_file with the final else branch sending the file to the PDF reader
ParseFileAnyName(file, filename) ==
  IF EndsWith(Lower(filename), <<".", "d", "o", "c", "x">>) THEN ParseDocx(file)
  ELSE IF \E suf \in { <<".", "p", "n", "g">>, <<".", "j", "p", "g">>,
                       <<".", "j", "p", "e", "g">>, <<".", "g", "i", "f">> } :
            EndsWith(Lower(filename), suf)
    THEN ImageToText(file)
  ELSE ParsePdf(file)

\* parse_file
ParseFile(file, filename) ==
  IF EndsWith(Lower(filename), <<".", "p", "d", "f">>) THEN ParsePdf(file)
  ELSE IF EndsWith(Lower(filename), <<".", "d", "o", "c", "x">>) THEN ParseDocx(file)
  ELSE IF \E suf \in { <<".", "p", "n", "g">>, <<".", "j", "p", "g">>,
                       <<".", "j", "p", "e", "g">>, <<".", "g", "i", "f">> } :
            EndsWith(Lower(filename), suf)
    THEN ImageToText(file)
  ELSE Raise(Exc("ValueError",
                 <<"Unsupported file format. Only PDF, DOCX, and image formats are supported.">>))

(***************************************************************************)
(* Extraction and Enhancement Orchestrators                                *)
(***************************************************************************)
\* the attachment left out: the model's own original_text survives
ExtractAttachSkipped(structured, text) == structured

\* structured_data["extracted_jd"]["original_text"] = text
ExtractAttach(structured, text) == [structured EXCEPT !.jd.original_text = PyStr(text)]

\* the except clause of extract_job_description
ExtractFailed(exc) ==
  Raise(Exc("Exception", <<"Error extracting job description:">> \o exc.msg))

\* an extraction that answers a failed validation with a result instead of
\* the error
ExtractFromTextRepairs(text, reply) ==
  LET res == ExtractWithSchema(reply, "extracted_jd")
  IN IF res.kind = "return" THEN Return(ExtractAttach(res.value, text))
     ELSE Return(ExtractAttach(ModelValidateJson(ReplyGood, "extracted_jd").value, text))

\* extract_job_description from the model call on, given the parsed text
ExtractFromText(text, reply) ==
  LET res == ExtractWithSchema(reply, "extracted_jd")
  IN IF res.kind = "return" THEN Return(ExtractAttach(res.value, text))
     ELSE ExtractFailed(res.exc)

\* an orchestrator that copies extracted_jd.get("original_text") without the
\* membership test
PreserveOriginalTextAlways(enhanced, extracted_jd) ==
  IF extracted_jd.original_text.t # "absent"
    THEN [enhanced EXCEPT !.jd.original_text = extracted_jd.original_text]
  ELSE [enhanced EXCEPT !.jd.original_text = PyNone]

\* if "original_text" in extracted_jd: enhanced_data["enhanced_jd"]["original_text"] = ...
PreserveOriginalText(enhanced, extracted_jd) ==
  IF extracted_jd.original_text.t # "absent"
    THEN [enhanced EXCEPT !.jd.original_text = extracted_jd.original_text]
  ELSE enhanced

\* the body of _process_enhancement_with_bool_fix, given the reply the model
\* makes to the boolean-emphasis prompt pair
ProcessEnhancementWithBoolFix(extracted_jd, reply) ==
  LET res == ExtractWithSchema(reply, "enhanced_jd")
  IN IF res.kind = "return" THEN Return(PreserveOriginalText(res.value, extracted_jd))
     ELSE res

\* an enhancement that clears original_text on the mapping it was given
EnhanceInputAfterWritten(extracted_jd, reply) == [extracted_jd EXCEPT !.original_text = PyNone]

\* the input mapping of enhance_job_description after the call: it is read
\* (json.dumps, the membership test, the lookup of original_text), never
\* written
EnhanceInputAfter(extracted_jd, reply) == extracted_jd

\* "bool_parsing" in str(e)
IsBoolParsing(exc) == Contains(exc.msg, "bool_parsing")

\* enhance_job_description: the first call, and on an error the except
\* clause.  The repair function is called without await, so what the try
\* block of the except clause gets, and returns, is its coroutine object.
EnhanceJobDescription(extracted_jd, reply) ==
  LET res == ExtractWithSchema(reply, "enhanced_jd")
  IN IF res.kind = "return" THEN Return(PreserveOriginalText(res.value, extracted_jd))
     ELSE IF IsBoolParsing(res.exc)
       THEN Return(Coroutine("_process_enhancement_with_bool_fix"))
     ELSE Raise(Exc("Exception", <<"Error enhancing job description:">> \o res.exc.msg))

(***************************************************************************)
(* Requests                                                                *)
(***************************************************************************)
\* the requests of a run
Reqs == {1}

TextOf(file, filename) == ParseFile(file, filename).value

\* mappings a client may post to the Enhance endpoint: an extraction result,
\* the same without its original_text key, an empty dict, a dict without
\* the extracted_jd key
ExtractedJDs ==
  LET done == ExtractFromText(TextOf(FileImage, <<"a", ".", "p", "n", "g">>), ReplyGood).value.jd
  IN {done, [done EXCEPT !.original_text = Absent]}

Bodies ==
  {[keys |-> {"extracted_jd"}, extracted_jd |-> jd] : jd \in ExtractedJDs}
    \cup {[keys |-> {}, extracted_jd |-> NoJD], [keys |-> {"job"}, extracted_jd |-> NoJD]}

NoBody == [keys |-> {}, extracted_jd |-> NoJD]

\* the model's reply to each prompt pair of a request: to the extraction
\* prompts, to the enhancement prompts, and to the boolean-emphasis prompts
\* of the repair function
NoMock == [extract |-> ReplyTimeout, enhance |-> ReplyTimeout, repair |-> ReplyTimeout]

NoResp == [status |-> 0, body |-> NoResult.value, detail |-> <<>>]

VARIABLES pc, kind, filename, file, jd_data, mock, text, extracted, enh_in, result,
          callLog, invoked, parseCalls, resp, loop,
          system_prompt, user_prompt, messages

vars == <<pc, kind, filename, file, jd_data, mock, text, extracted, enh_in, result,
          callLog, invoked, parseCalls, resp, loop, system_prompt, user_prompt, messages>>

\* the Requester's arguments and the messages it sends, used where the
\* Requester is studied on its own
reqVars == <<system_prompt, user_prompt, messages>>

\* no call of the Requester on its own
NoRequesterCall == system_prompt = <<>> /\ user_prompt = <<>> /\ messages = <<>>

\* the state before any request, for the requests rs
InitOf(rs) ==
  /\ pc = [r \in rs |-> "idle"]
  /\ kind = [r \in rs |-> "none"]
  /\ filename = [r \in rs |-> <<>>]
  /\ file = [r \in rs |-> FileGarbage]
  /\ jd_data = [r \in rs |-> NoBody]
  /\ mock = [r \in rs |-> NoMock]
  /\ text = [r \in rs |-> <<>>]
  /\ extracted = [r \in rs |-> NoResult]
  /\ enh_in = [r \in rs |-> NoJD]
  /\ result = [r \in rs |-> NoResult]
  /\ callLog = [r \in rs |-> <<>>]
  /\ invoked = [r \in rs |-> 0]
  /\ parseCalls = [r \in rs |-> 0]
  /\ resp = [r \in rs |-> NoResp]
  /\ loop = 0

Init == InitOf(Reqs) /\ NoRequesterCall

\* a file upload, one of uploads, arrives at the Extract or the
\* Extract-and-Enhance endpoint
ArriveUploadOf(r, names, files) ==
  /\ pc[r] = "idle"
  /\ \E k \in {"extract", "process"}, fn \in names, f \in files :
       /\ kind' = [kind EXCEPT ![r] = k]
       /\ filename' = [filename EXCEPT ![r] = fn]
       /\ file' = [file EXCEPT ![r] = f]
  /\ pc' = [pc EXCEPT ![r] = "read"]
  /\ UNCHANGED <<jd_data, mock, text, extracted, enh_in, result, callLog, invoked,
                 parseCalls, resp, loop>>
  /\ UNCHANGED reqVars

ArriveUpload(r) == ArriveUploadOf(r, Filenames, Files)

\* a JSON body, one of bodies, arrives at the Enhance endpoint
ArriveBodyOf(r, bodies) ==
  /\ pc[r] = "idle"
  /\ \E b \in bodies : jd_data' = [jd_data EXCEPT ![r] = b]
  /\ kind' = [kind EXCEPT ![r] = "enhance"]
  /\ pc' = [pc EXCEPT ![r] = "validate"]
  /\ UNCHANGED <<filename, file, mock, text, extracted, enh_in, result, callLog, invoked,
                 parseCalls, resp, loop>>
  /\ UNCHANGED reqVars

ArriveBody(r) == ArriveBodyOf(r, Bodies)

\* file_buffer = BytesIO(await file.read()): the task resumes with the bytes
ReadUpload(r) ==
  /\ pc[r] = "read"
  /\ loop = 0
  /\ loop' = r
  /\ pc' = [pc EXCEPT ![r] = "parse"]
  /\ UNCHANGED <<kind, filename, file, jd_data, mock, text, extracted, enh_in, result,
                 callLog, invoked, parseCalls, resp>>
  /\ UNCHANGED reqVars

\* extract_job_description: text = parse_file(file_buffer, filename)
ParseStep(r) ==
  /\ pc[r] = "parse"
  /\ loop = r
  /\ parseCalls' = [parseCalls EXCEPT ![r] = @ + 1]
  /\ LET p == ParseFile(file[r], filename[r])
     IN IF p.kind = "return"
          THEN /\ text' = [text EXCEPT ![r] = p.value]
               /\ pc' = [pc EXCEPT ![r] = "extract_call"]
               /\ UNCHANGED result
          ELSE /\ result' = [result EXCEPT ![r] = ExtractFailed(p.exc)]
               /\ pc' = [pc EXCEPT ![r] = "respond"]
               /\ UNCHANGED text
  /\ UNCHANGED <<kind, filename, file, jd_data, mock, extracted, enh_in, callLog, invoked,
                 resp, loop>>
  /\ UNCHANGED reqVars

\* the extraction of a combined request answered as if it were the whole
\* request: the enhancement never runs
ExtractCallReturnsEarly(r, replies) ==
  /\ pc[r] = "extract_call"
  /\ loop = r
  /\ invoked' = [invoked EXCEPT ![r] = @ + 1]
  /\ \E reply \in replies :
     LET res == ExtractFromText(text[r], reply)
     IN /\ mock' = [mock EXCEPT ![r].extract = reply]
        /\ callLog' = [callLog EXCEPT ![r] = @ \o IssuedCalls(reply, "extracted_jd", "extract")]
        /\ extracted' = [extracted EXCEPT ![r] = res]
        /\ result' = [result EXCEPT ![r] = res]
        /\ pc' = [pc EXCEPT ![r] = "respond"]
        /\ UNCHANGED enh_in
  /\ UNCHANGED <<kind, filename, file, jd_data, text, parseCalls, resp, loop>>
  /\ UNCHANGED reqVars

\* extract_job_description: the model call, with the reply the model makes
\* to it, and what follows it; in a combined request the endpoint goes on to
\* the enhancement with extracted_data["extracted_jd"]
ExtractCallOf(r, replies) ==
  /\ pc[r] = "extract_call"
  /\ loop = r
  /\ invoked' = [invoked EXCEPT ![r] = @ + 1]
  /\ \E reply \in replies :
     LET res == ExtractFromText(text[r], reply)
     IN /\ mock' = [mock EXCEPT ![r].extract = reply]
        /\ callLog' = [callLog EXCEPT ![r] = @ \o IssuedCalls(reply, "extracted_jd", "extract")]
        /\ extracted' = [extracted EXCEPT ![r] = res]
        /\ IF kind[r] = "process" /\ res.kind = "return"
             THEN /\ enh_in' = [enh_in EXCEPT ![r] = res.value.jd]
                  /\ pc' = [pc EXCEPT ![r] = "enhance_call"]
                  /\ UNCHANGED result
             ELSE /\ result' = [result EXCEPT ![r] = res]
                  /\ pc' = [pc EXCEPT ![r] = "respond"]
                  /\ UNCHANGED enh_in
  /\ UNCHANGED <<kind, filename, file, jd_data, text, parseCalls, resp, loop>>
  /\ UNCHANGED reqVars

ExtractCall(r) == ExtractCallOf(r, Replies)

\* the Enhance endpoint's check of its input; the HTTPException it raises is
\* raised inside the handler's try block
ValidateInput(r) ==
  /\ pc[r] = "validate"
  /\ loop = 0
  /\ loop' = r
  /\ IF jd_data[r].keys = {} \/ "extracted_jd" \notin jd_data[r].keys
       THEN /\ result' = [result EXCEPT ![r] =
                 Raise(Exc("HTTPException",
                   <<"400:", "Invalid input. Expected a dictionary with 'extracted_jd' key.">>))]
            /\ pc' = [pc EXCEPT ![r] = "respond"]
            /\ UNCHANGED enh_in
       ELSE /\ enh_in' = [enh_in EXCEPT ![r] = jd_data[r].extracted_jd]
            /\ pc' = [pc EXCEPT ![r] = "enhance_call"]
            /\ UNCHANGED result
  /\ UNCHANGED <<kind, filename, file, jd_data, mock, text, extracted, callLog, invoked,
                 parseCalls, resp>>
  /\ UNCHANGED reqVars

\* an orchestrator that calls the Requester again for as long as it fails
EnhanceCallRetrying(r, firsts, seconds) ==
  /\ pc[r] = "enhance_call"
  /\ loop = r
  /\ invoked' = [invoked EXCEPT ![r] = @ + 1]
  /\ \E first \in firsts, second \in seconds :
       /\ mock' = [mock EXCEPT ![r].enhance = first, ![r].repair = second]
       /\ callLog' = [callLog EXCEPT ![r] = @ \o IssuedCalls(first, "enhanced_jd", "enhance")]
       /\ result' = [result EXCEPT ![r] = EnhanceJobDescription(enh_in[r], first)]
       /\ enh_in' = [enh_in EXCEPT ![r] = EnhanceInputAfter(enh_in[r], first)]
       /\ pc' = [pc EXCEPT ![r] =
                  IF ExtractWithSchema(first, "enhanced_jd").kind = "raise"
                    THEN "enhance_call" ELSE "respond"]
  /\ UNCHANGED <<kind, filename, file, jd_data, text, extracted, parseCalls, resp, loop>>
  /\ UNCHANGED reqVars

\* enhance_job_description, with the reply the model makes to the enhancement
\* prompts and the reply it has for the repair function's prompts; enh_in is
\* the mapping the caller passed, as the call leaves it
EnhanceCallOf(r, firsts, seconds) ==
  /\ pc[r] = "enhance_call"
  /\ loop = r
  /\ invoked' = [invoked EXCEPT ![r] = @ + 1]
  /\ \E first \in firsts, second \in seconds :
       /\ mock' = [mock EXCEPT ![r].enhance = first, ![r].repair = second]
       /\ callLog' = [callLog EXCEPT ![r] = @ \o IssuedCalls(first, "enhanced_jd", "enhance")]
       /\ result' = [result EXCEPT ![r] = EnhanceJobDescription(enh_in[r], first)]
       /\ enh_in' = [enh_in EXCEPT ![r] = EnhanceInputAfter(enh_in[r], first)]
  /\ pc' = [pc EXCEPT ![r] = "respond"]
  /\ UNCHANGED <<kind, filename, file, jd_data, text, extracted, parseCalls, resp, loop>>
  /\ UNCHANGED reqVars

EnhanceCall(r) == EnhanceCallOf(r, Replies, Replies)

ErrorPrefix(k) ==
  CASE k = "extract" -> <<"Error extracting job description:">>
    [] k = "enhance" -> <<"Error enhancing job description:">>
    [] k = "process" -> <<"Error processing job description:">>

\* the endpoint returns, or its except clause raises HTTPException(500); a
\* returned value that is not a mapping fails the response model
Response(k, res) ==
  IF res.kind = "raise"
    THEN [status |-> 500, body |-> NoResult.value, detail |-> ErrorPrefix(k) \o res.exc.msg]
  ELSE IF res.value.type # "mapping"
    THEN [status |-> 500, body |-> NoResult.value, detail |-> <<"Internal Server Error">>]
  ELSE [status |-> 200, body |-> res.value, detail |-> <<>>]

\* a handler that keeps its answer where every request reads it
RespondShared(r) ==
  /\ pc[r] = "respond"
  /\ loop = r
  /\ resp' = [q \in DOMAIN resp |-> Response(kind[r], result[r])]
  /\ pc' = [pc EXCEPT ![r] = "done"]
  /\ loop' = 0
  /\ UNCHANGED <<kind, filename, file, jd_data, mock, text, extracted, enh_in, result,
                 callLog, invoked, parseCalls>>
  /\ UNCHANGED reqVars

\* the endpoint's return or raise: the response is sent and the task ends
Respond(r) ==
  /\ pc[r] = "respond"
  /\ loop = r
  /\ resp' = [resp EXCEPT ![r] = Response(kind[r], result[r])]
  /\ pc' = [pc EXCEPT ![r] = "done"]
  /\ loop' = 0
  /\ UNCHANGED <<kind, filename, file, jd_data, mock, text, extracted, enh_in, result,
                 callLog, invoked, parseCalls>>
  /\ UNCHANGED reqVars

Next ==
  \E r \in Reqs :
    \/ ArriveUpload(r)
    \/ ArriveBody(r)
    \/ ReadUpload(r)
    \/ ParseStep(r)
    \/ ExtractCall(r)
    \/ ValidateInput(r)
    \/ EnhanceCall(r)
    \/ Respond(r)

Spec == Init /\ [][Next]_vars

(***************************************************************************)
(* The Requester on its own: extract_with_schema called with any system    *)
(* prompt and user prompt, up to the messages it hands to the client.      *)
(***************************************************************************)
\* "\nPlease format your response as JSON."
JsonSentence ==
  <<"\n", "P", "l", "e", "a", "s", "e", " ", "f", "o", "r", "m", "a", "t", " ",
    "y", "o", "u", "r", " ", "r", "e", "s", "p", "o", "n", "s", "e", " ", "a", "s", " ",
    "J", "S", "O", "N", ".">>

\* a Requester that looks for "json" in the prompt as given
SystemPromptSentCaseSensitive(sp) ==
  IF ~HasSubstring(sp, <<"j", "s", "o", "n">>) THEN sp \o JsonSentence ELSE sp

\* the system prompt after the check for the word "json"
SystemPromptSent(sp) ==
  IF ~HasSubstring(Lower(sp), <<"j", "s", "o", "n">>) THEN sp \o JsonSentence ELSE sp

\* the messages list of the chat completion request
BuildMessages(sp, up) ==
  <<[role |-> "system", content |-> SystemPromptSent(sp)],
    [role |-> "user", content |-> up]>>

\* longest system prompt tried
MaxPromptLen == 4

PromptChars == {"j", "s", "o", "n", "J", "S", "O", "N"}

SystemPrompts == UNION {[1..k -> PromptChars] : k \in 0..MaxPromptLen}

UserPrompts == {<<"x">>, <<"j", "s", "o", "n">>}

InitRequester ==
  /\ InitOf(Reqs)
  /\ system_prompt \in SystemPrompts
  /\ user_prompt \in UserPrompts
  /\ messages = <<>>

\* extract_with_schema up to the call of the client; system_prompt and
\* user_prompt stay the strings the caller passed
RequesterCall ==
  /\ messages = <<>>
  /\ messages' = BuildMessages(system_prompt, user_prompt)
  /\ UNCHANGED <<pc, kind, filename, file, jd_data, mock, text, extracted, enh_in, result,
                 callLog, invoked, parseCalls, resp, loop, system_prompt, user_prompt>>

NextRequester == RequesterCall

SpecRequester == InitRequester /\ [][NextRequester]_vars

(***************************************************************************)
(* Concurrent requests on one server: the handlers are tasks of one event  *)
(* loop; loop is the task that runs, 0 when the loop is free.  A task      *)
(* gives the loop up only at an await that suspends it: file.read().       *)
(* parse_file and chat.completions.create are synchronous calls.           *)
(***************************************************************************)
\* number of concurrent requests
NumClients == 2

Clients == 1..NumClients

ConcNames == { <<"j", "d", ".", "p", "d", "f">>,
               <<"r", "e", "s", "u", "m", "e", ".", "t", "x", "t">> }

ConcFiles == {FilePdfPlain}

ConcBodies ==
  {NoBody} \cup
    {b \in Bodies : b.keys = {"extracted_jd"} /\ b.extracted_jd.original_text # Absent}

ConcReplies == {ReplyGood, ReplyTextBool, ReplyTimeout}

InitConc == InitOf(Clients) /\ NoRequesterCall

ConcArriveUpload(r) == ArriveUploadOf(r, ConcNames, ConcFiles)

ConcArriveBody(r) == ArriveBodyOf(r, ConcBodies)

ConcExtractCall(r) == ExtractCallOf(r, ConcReplies)

ConcEnhanceCall(r) == EnhanceCallOf(r, ConcReplies, {ReplyGood})

\* a step of the handler task of request r
TaskStep(r) ==
  \/ ReadUpload(r)
  \/ ParseStep(r)
  \/ ConcExtractCall(r)
  \/ ValidateInput(r)
  \/ ConcEnhanceCall(r)
  \/ Respond(r)

NextConc ==
  \E r \in Clients :
    \/ ConcArriveUpload(r)
    \/ ConcArriveBody(r)
    \/ ReadUpload(r)
    \/ ParseStep(r)
    \/ ConcExtractCall(r)
    \/ ValidateInput(r)
    \/ ConcEnhanceCall(r)
    \/ Respond(r)

SpecConc == InitConc /\ [][NextConc]_vars

(***************************************************************************)
(* One request under fairness: the event loop runs a task that is ready,   *)
(* and every parse step and every model call returns or fails.             *)
(***************************************************************************)
NextFair ==
  \E r \in Reqs :
    \/ ArriveUpload(r)
    \/ ArriveBody(r)
    \/ ReadUpload(r)
    \/ ParseStep(r)
    \/ ConcExtractCall(r)
    \/ ValidateInput(r)
    \/ ConcEnhanceCall(r)
    \/ Respond(r)

Fairness == \A r \in Reqs : WF_vars(TaskStep(r))

SpecFair == Init /\ [][NextFair]_vars /\ Fairness

(***************************************************************************)
(* Properties                                                              *)
(***************************************************************************)
\* enhance_job_description has run to its end for request r
Enhanced(r) == pc[r] \in {"respond", "done"} /\ "enhance" \in Range(callLog[r])

\* the model calls enhance_job_description has issued for request r
EnhanceCalls(r) ==
  Cardinality({i \in 1..Len(callLog[r]) : callLog[r][i] \in {"enhance", "repair"}})

BoolFields == {"relocation_assistance", "visa_sponsorship"}

\* the reply fails schema validation at a boolean field
BoolCoercionFailure(reply) ==
  /\ reply.transport = "ok" /\ reply.json /\ reply.wrapper = "asked"
  /\ \E i \in 1..Len(ValidateJD(reply.jd).errs) : ValidateJD(reply.jd).errs[i].loc \in BoolFields

\* the reply makes the Requester fail
Fails(reply, key) == ExtractWithSchema(reply, key).kind = "raise"

\* C1 (as claimed): when the first Requester call fails with a boolean-coercion
\* validation failure, enhance_job_description has made exactly two model
\* calls when it finishes.
C1_RetryIssuesSecondCall ==
  \A r \in Reqs :
    Enhanced(r) /\ BoolCoercionFailure(mock[r].enhance) => EnhanceCalls(r) = 2

\* C2 (as claimed): when the first call fails with a boolean-coercion failure
\* and the model's reply to the repair prompts validates, enhance_job_description
\* returns what the repair function returns for that reply: a mapping with an
\* enhanced_jd key.
C2_ReturnsSecondResult ==
  \A r \in Reqs :
    ( /\ Enhanced(r)
      /\ BoolCoercionFailure(mock[r].enhance)
      /\ ~Fails(mock[r].repair, "enhanced_jd") )
    => /\ result[r] = ProcessEnhancementWithBoolFix(enh_in[r], mock[r].repair)
       /\ result[r].value.type = "mapping"
       /\ result[r].value.key = "enhanced_jd"

\* C3 (as claimed): when the first call and the repair call both fail with a
\* boolean-coercion failure, enhance_job_description raises and returns nothing.
C3_RaisesWhenRepairFails ==
  \A r \in Reqs :
    ( /\ Enhanced(r)
      /\ BoolCoercionFailure(mock[r].enhance)
      /\ BoolCoercionFailure(mock[r].repair) )
    => result[r].kind = "raise"

\* C4 (as claimed): when the first call fails with an error that is not a
\* boolean-coercion failure, enhance_job_description raises that error,
\* wrapped, after exactly one model call.
C4_OtherErrorsPropagate ==
  \A r \in Reqs :
    ( /\ Enhanced(r)
      /\ Fails(mock[r].enhance, "enhanced_jd")
      /\ ~BoolCoercionFailure(mock[r].enhance) )
    => /\ result[r].kind = "raise"
       /\ EnhanceCalls(r) = 1

\* C5 (as claimed): the Enhance endpoint answers a body that is empty or has
\* no extracted_jd key with a 4xx status.
C5_MissingKeyIsClientError ==
  \A r \in Reqs :
    ( /\ pc[r] = "done" /\ kind[r] = "enhance"
      /\ (jd_data[r].keys = {} \/ "extracted_jd" \notin jd_data[r].keys) )
    => resp[r].status \in 400..499

\* C6 (as claimed): whenever enhance_job_description returns for an input that
\* carries original_text, on the normal path or the repair path, what it
\* returns is a mapping whose enhanced_jd.original_text is the input's.
C6_OriginalTextPreserved ==
  \A r \in Reqs :
    ( /\ Enhanced(r)
      /\ result[r].kind = "return"
      /\ enh_in[r].original_text.t # "absent" )
    => /\ result[r].value.type = "mapping"
       /\ result[r].value.jd.original_text = enh_in[r].original_text

\* extract_job_description has run its model call for request r
Extracted(r) == "extract" \in Range(callLog[r])

\* C7: every successful extract_job_description returns the parsed text of
\* the file as extracted_jd.original_text, whatever the model sent there, and
\* the Requester's validated values in every other field.
C7_ExtractAttachesParsedText ==
  \A r \in Reqs :
    Extracted(r) /\ extracted[r].kind = "return"
    => LET validated == ModelValidateJson(mock[r].extract, "extracted_jd").value
       IN /\ text[r] = ParseFile(file[r], filename[r]).value
          /\ extracted[r].value.jd.original_text = PyStr(text[r])
          /\ extracted[r].value.jd.sub = validated.jd.sub
          /\ extracted[r].value.message = validated.message
          /\ extracted[r].value.key = "extracted_jd"

\* C7 witness: an extraction succeeded on a reply that carried its own
\* original_text, different from the parsed text
C7_Witness ==
  \E r \in Reqs :
    /\ Extracted(r) /\ extracted[r].kind = "return"
    /\ mock[r].extract.jd.original_text.t = "str"
    /\ mock[r].extract.jd.original_text.v # text[r]

RECURSIVE AfterLastDot(_)
\* the extension of a filename: what follows its last dot; <<".">> when it
\* has no dot
AfterLastDot(s) ==
  IF s = <<>> THEN <<".">>
  ELSE IF "." \in Range(Tail(s)) THEN AfterLastDot(Tail(s))
  ELSE IF Head(s) = "." THEN Tail(s)
  ELSE AfterLastDot(Tail(s))

FormatOfExtension(ext) ==
  CASE ext = <<"p", "d", "f">> -> "pdf"
    [] ext = <<"d", "o", "c", "x">> -> "docx"
    [] ext \in { <<"p", "n", "g">>, <<"j", "p", "g">>, <<"j", "p", "e", "g">>,
                 <<"g", "i", "f">> } -> "image"
    [] OTHER -> "unsupported"

\* the upload of request r cannot be parsed: its extension is not on the
\* list, or the handler of its extension cannot read the file
Unparsable(r) ==
  LET format == FormatOfExtension(AfterLastDot(Lower(filename[r])))
  IN format = "unsupported" \/ file[r].format # format

Succeeded(r) == pc[r] = "done" /\ resp[r].status = 200

\* C9 (as claimed): in every successful result both boolean compensation
\* fields are booleans, never null.
C9_BooleansNeverNull ==
  \A r \in Reqs :
    Succeeded(r) =>
      \A f \in BoolFields : resp[r].body.jd.sub.compensation[f].t = "bool"

\* C10 (as claimed): in every successful extraction output job_title and
\* job_summary are non-empty strings.
C10_TitleAndSummaryNonEmpty ==
  \A r \in Reqs :
    Extracted(r) /\ extracted[r].kind = "return"
    => /\ extracted[r].value.jd.sub.basic_info.job_title.t = "str"
       /\ extracted[r].value.jd.sub.basic_info.job_title.v # <<>>
       /\ extracted[r].value.jd.sub.role_description.job_summary.t = "str"
       /\ extracted[r].value.jd.sub.role_description.job_summary.v # <<>>

\* s ends with suf
IsSuffix(suf, s) == Len(suf) <= Len(s) /\ SubSeq(s, Len(s) - Len(suf) + 1, Len(s)) = suf

\* C11: a combined request runs the text extraction, then the extraction
\* call, then the enhancement call, in that order; a stage that fails is the
\* last one to run; the answer is the enhancement result or an error, never
\* the extraction result or another partial result.
C11_PipelineInOrder ==
  \A r \in Reqs :
    kind[r] = "process" =>
      /\ callLog[r] \in {<<>>, <<"extract">>, <<"extract", "enhance">>}
      /\ callLog[r] # <<>> =>
           parseCalls[r] = 1 /\ ParseFile(file[r], filename[r]).kind = "return"
      /\ "enhance" \in Range(callLog[r]) => extracted[r].kind = "return"
      /\ pc[r] = "done" =>
           \/ /\ resp[r].status = 200
              /\ callLog[r] = <<"extract", "enhance">>
              /\ resp[r].body.type = "mapping"
              /\ resp[r].body.key = "enhanced_jd"
              /\ resp[r].body = result[r].value
           \/ /\ resp[r].status = 500
              /\ resp[r].body = NoResult.value

\* C11 witness: a combined request answered with an enhancement result
C11_Witness ==
  \E r \in Reqs :
    /\ kind[r] = "process" /\ pc[r] = "done" /\ resp[r].status = 200
    /\ callLog[r] = <<"extract", "enhance">>

\* C13: every invocation of extract_with_schema issues exactly one model
\* call, whether the reply validates or not.
C13_OneCallPerInvocation == \A r \in Reqs : Len(callLog[r]) = invoked[r]

\* C13 witness: an invocation whose reply did not validate, one call issued
C13_Witness ==
  \E r \in Reqs :
    /\ Extracted(r) /\ invoked[r] = 1 /\ Len(callLog[r]) = 1
    /\ mock[r].extract.transport = "ok"
    /\ Fails(mock[r].extract, "extracted_jd")

\* C14 (as claimed): the error the Requester raises for a reply that does not
\* validate is of another kind than the error it raises for a transport
\* failure.
C14_FailureKindsDistinct ==
  \A r \in Reqs :
    ( /\ Extracted(r)
      /\ mock[r].extract.transport = "ok"
      /\ Fails(mock[r].extract, "extracted_jd") )
    => ExtractWithSchema(mock[r].extract, "extracted_jd").exc.cls
         # ExtractWithSchema(ReplyTimeout, "extracted_jd").exc.cls

\* C17: when the extraction model call fails, with a boolean-coercion failure
\* or any other, extract_job_description has made that one call only and
\* raises the error, wrapped.
C17_ExtractionNeverRetries ==
  \A r \in Reqs :
    Extracted(r) /\ Fails(mock[r].extract, "extracted_jd")
    => /\ callLog[r] = <<"extract">>
       /\ invoked[r] = 1
       /\ extracted[r].kind = "raise"
       /\ result[r] = extracted[r]
       /\ IsSuffix(ExtractWithSchema(mock[r].extract, "extracted_jd").exc.msg,
                   extracted[r].exc.msg)

\* C17 witness: an extraction that met a boolean-coercion failure and ended
C17_Witness ==
  \E r \in Reqs :
    /\ Extracted(r) /\ pc[r] = "done"
    /\ BoolCoercionFailure(mock[r].extract)
    /\ IsBoolParsing(extracted[r].exc)

\* the request body of r has no extracted_jd key
MissingKey(r) ==
  kind[r] = "enhance" /\ (jd_data[r].keys = {} \/ "extracted_jd" \notin jd_data[r].keys)

\* the stage of request r that failed, "none" when none did
FailedStage(r) ==
  IF MissingKey(r) THEN "input"
  ELSE IF kind[r] \in {"extract", "process"} /\ ParseFile(file[r], filename[r]).kind = "raise"
    THEN "parse"
  ELSE IF Extracted(r) /\ Fails(mock[r].extract, "extracted_jd") THEN "extract"
  ELSE IF "enhance" \in Range(callLog[r]) /\ Fails(mock[r].enhance, "enhanced_jd")
    THEN "enhance"
  ELSE "none"

\* the message of the error the failed stage raised
FailureMessage(r) ==
  CASE FailedStage(r) = "parse"   -> ParseFile(file[r], filename[r]).exc.msg
    [] FailedStage(r) = "extract" -> ExtractWithSchema(mock[r].extract, "extracted_jd").exc.msg
    [] FailedStage(r) = "enhance" -> ExtractWithSchema(mock[r].enhance, "enhanced_jd").exc.msg
    [] OTHER -> <<>>

\* C15 (as claimed): a request in which a stage failed, the enhancement's
\* first call included, is answered with status 500 and a body that holds the
\* error's message; only the missing extracted_jd key is answered otherwise,
\* with a client error.
C15_FailuresAreServerErrors ==
  \A r \in Reqs :
    pc[r] = "done" /\ FailedStage(r) # "none" =>
      IF FailedStage(r) = "input" THEN resp[r].status \in 400..499
      ELSE /\ resp[r].status = 500
           /\ IsSuffix(FailureMessage(r), resp[r].detail)

\* the mapping the caller of enhance_job_description passed, as it was
\* before the call
EnhanceInputBefore(r) ==
  IF kind[r] = "process" THEN extracted[r].value.jd ELSE jd_data[r].extracted_jd

\* C18: after enhance_job_description, on the success path, the repair path
\* and the error paths, the input mapping equals its value before the call.
C18_InputNotModified ==
  \A r \in Reqs : Enhanced(r) => enh_in[r] = EnhanceInputBefore(r)

\* C18 witness: an enhancement returned a mapping that differs from its input
C18_Witness ==
  \E r \in Reqs :
    /\ Enhanced(r) /\ result[r].kind = "return" /\ result[r].value.type = "mapping"
    /\ result[r].value.jd # enh_in[r]
    /\ enh_in[r].original_text.t = "str"

\* the default of a field the reply omitted
DefaultOf(fieldKind) ==
  CASE fieldKind = "list" -> PyList(<<>>)
    [] fieldKind = "dict" -> PyDict
    [] OTHER -> PyNone

\* the validated posting jd, made from the reply's object raw, has the eight
\* sub-records with every declared field, and the default in every field the
\* reply omitted
CompleteWithDefaults(jd, raw) ==
  /\ DOMAIN jd.sub = {"basic_info", "posting_metadata", "role_description", "requirements",
                      "skills", "compensation", "work_environment", "career_path"}
  /\ \A i \in 1..Len(JobDescriptionSchema) :
       LET name   == JobDescriptionSchema[i][1]
           schema == JobDescriptionSchema[i][2]
       IN /\ DOMAIN jd.sub[name] = FieldNames(schema)
          /\ \A k \in 1..Len(schema) :
               LET f == schema[k][1]
               IN /\ jd.sub[name][f].t \in {"str", "bool", "list", "dict", "none"}
                  /\ raw.sub[name].f[f].t = "absent" => jd.sub[name][f] = DefaultOf(schema[k][2])

\* C19: every mapping a successful Requester call returns has all eight
\* sub-records with every declared field: an omitted list is empty, an
\* omitted skills_priority an empty mapping, an omitted optional scalar null.
C19_DefaultsFilledIn ==
  \A r \in Reqs :
    /\ Extracted(r) /\ extracted[r].kind = "return"
       => CompleteWithDefaults(extracted[r].value.jd, mock[r].extract.jd)
    /\ Enhanced(r) /\ result[r].kind = "return" /\ result[r].value.type = "mapping"
       => CompleteWithDefaults(result[r].value.jd, mock[r].enhance.jd)

\* C19 witness: a successful call whose reply had no skills sub-record
C19_Witness ==
  \E r \in Reqs :
    /\ Extracted(r) /\ extracted[r].kind = "return"
    /\ mock[r].extract.jd.sub.skills.st = "absent"
    /\ extracted[r].value.jd.sub.skills.hard_skills = PyList(<<>>)

\* s starts with pre
IsPrefix(pre, s) == Len(pre) <= Len(s) /\ SubSeq(s, 1, Len(pre)) = pre

\* the body text of a file, as its handler collects it
BodyText(f) ==
  IF f.format = "docx" THEN Concat([i \in 1..Len(f.parts) |-> f.parts[i] \o NL])
  ELSE Concat(f.parts)

\* C20 (as claimed): the text a format handler returns starts with the body
\* text, holds the hyperlink targets after it, and has no leading or trailing
\* whitespace, also for a document without hyperlinks or header/footer text.
C20_ParsedTextTrimmed ==
  \A r \in Reqs :
    ( /\ kind[r] \in {"extract", "process"}
      /\ pc[r] \notin {"idle", "read", "parse"}
      /\ ParseFile(file[r], filename[r]).kind = "return" )
    => /\ text[r] = Strip(text[r])
       /\ IsPrefix(Strip(BodyText(file[r])), text[r])
       /\ \A i \in 1..Len(file[r].links) : Contains(text[r], file[r].links[i])

\* request r is in its document-parse step or in a model call
InExternalCall(r) == pc[r] \in {"parse", "extract_call", "enhance_call"}

\* request r has arrived and its task waits to run
Ready(r) == pc[r] \in {"read", "validate"}

\* C12 (as claimed): while a request is in its parse step or in a model call,
\* its task is suspended, and every other request whose task is ready can
\* take its next step.
C12_ExternalCallsDoNotBlock ==
  \A r \in Clients :
    InExternalCall(r) =>
      /\ loop # r
      /\ \A q \in Clients \ {r} : Ready(q) => ENABLED TaskStep(q)

\* the answer to request r as its own input and the replies to its own calls
\* determine it
OwnAnswer(r) ==
  IF kind[r] = "enhance"
    THEN IF MissingKey(r)
           THEN Response("enhance", Raise(Exc("HTTPException",
                  <<"400:", "Invalid input. Expected a dictionary with 'extracted_jd' key.">>)))
         ELSE Response("enhance",
                       EnhanceJobDescription(jd_data[r].extracted_jd, mock[r].enhance))
  ELSE LET p == ParseFile(file[r], filename[r])
           e == ExtractFromText(p.value, mock[r].extract)
       IN IF p.kind = "raise" THEN Response(kind[r], ExtractFailed(p.exc))
          ELSE IF kind[r] = "extract" \/ e.kind = "raise" THEN Response(kind[r], e)
          ELSE Response("process", EnhanceJobDescription(e.value.jd, mock[r].enhance))

\* everything the server holds for request r
Own(r) ==
  <<kind[r], filename[r], file[r], jd_data[r], mock[r], text[r], extracted[r], enh_in[r],
    result[r], callLog[r], invoked[r], parseCalls[r], resp[r]>>

\* C16: under every interleaving of concurrent requests, the answer to a
\* request is the one its own input and the replies to its own calls
\* determine, and a step of another request changes nothing of it.
C16_RequestsIndependent ==
  /\ [](\A r \in Clients : pc[r] = "done" => resp[r] = OwnAnswer(r))
  /\ [][\A r \in Clients : pc'[r] = pc[r] => Own(r)' = Own(r)]_vars

\* C16 witness: an Extract-and-Enhance request and an Enhance request on the
\* same server are both answered, the first with a result, the second with
\* an error
C16_Witness ==
  /\ pc[1] = "done" /\ pc[2] = "done"
  /\ resp[1].status = 200 /\ resp[2].status = 500
  /\ kind[1] = "process" /\ kind[2] = "enhance"

\* the word "json" occurs in s, in any mix of upper and lower case
MentionsJson(s) ==
  \E i \in 1..(Len(s) - 3) :
    /\ s[i] \in {"j", "J"}
    /\ s[i + 1] \in {"s", "S"}
    /\ s[i + 2] \in {"o", "O"}
    /\ s[i + 3] \in {"n", "N"}

\* C21: the system message sent always mentions "json"; it is the given
\* prompt with the JSON sentence appended when the given prompt does not
\* mention it, the given prompt unchanged when it does; the user message is
\* the given user prompt.
C21_SystemPromptMentionsJson ==
  messages # <<>> =>
    /\ Len(messages) = 2
    /\ messages[1].role = "system"
    /\ MentionsJson(messages[1].content)
    /\ MentionsJson(system_prompt) => messages[1].content = system_prompt
    /\ ~MentionsJson(system_prompt) => messages[1].content = system_prompt \o JsonSentence
    /\ messages[2] = [role |-> "user", content |-> user_prompt]

\* C21 witness: a prompt of letters without the word gets the sentence, while
\* the user prompt that does hold the word is sent as it is
C21_Witness ==
  /\ messages # <<>>
  /\ system_prompt = <<"j", "s", "o">>
  /\ user_prompt = <<"j", "s", "o", "n">>
  /\ messages[1].content = <<"j", "s", "o">> \o JsonSentence

\* the except clause of enhance_job_description took its repair branch for
\* request r
RepairEntered(r) == result[r] = Return(Coroutine("_process_enhancement_with_bool_fix"))

\* the error the Requester raised at the first enhancement call of request r
FirstError(r) == ExtractWithSchema(mock[r].enhance, "enhanced_jd").exc

\* C22 (as claimed): the repair branch is taken exactly when the text of the
\* caught error contains "bool_parsing", and every validation failure at a
\* boolean field reaches enhance_job_description with "bool_parsing" in its
\* text.
C22_BoolFailureCarriesMarker ==
  \A r \in Reqs :
    Enhanced(r) =>
      /\ RepairEntered(r) <=>
           (Fails(mock[r].enhance, "enhanced_jd") /\ IsBoolParsing(FirstError(r)))
      /\ BoolCoercionFailure(mock[r].enhance) => IsBoolParsing(FirstError(r))

\* the first enhancement call of request r got a reply that validates, for an
\* input mapping without the original_text key
EnhancedWithoutOriginalText(r) ==
  /\ Enhanced(r)
  /\ enh_in[r].original_text.t = "absent"
  /\ ~Fails(mock[r].enhance, "enhanced_jd")

\* C23: when the input mapping has no original_text key and the reply
\* validates, enhanced_jd.original_text of the output is the reply's
\* original_text, None when the reply left it out or sent null.
C23_OriginalTextFromReply ==
  \A r \in Reqs :
    EnhancedWithoutOriginalText(r) =>
      LET sent == mock[r].enhance.jd.original_text
      IN /\ result[r].kind = "return"
         /\ result[r].value.type = "mapping"
         /\ result[r].value.jd.original_text =
              IF sent.t = "str" THEN PyStr(sent.v) ELSE PyNone

\* C23 witness: an input without the key, answered with a reply that carries
\* a text of its own, which is the text returned
C23_Witness ==
  /\ EnhancedWithoutOriginalText(1)
  /\ mock[1].enhance.jd.original_text = JStr(<<"text", "rewritten", "by", "the", "model">>)
  /\ result[1].value.jd.original_text = PyStr(<<"text", "rewritten", "by", "the", "model">>)

\* the most model calls a request of kind k may make
MaxCalls(k) ==
  CASE k = "extract" -> 1
    [] k = "enhance" -> 2
    [] k = "process" -> 3
    [] OTHER -> 0

\* C24: a request makes at most 1 model call at the Extract endpoint, 2 at
\* Enhance, 3 at Extract-and-Enhance, an answered request has a status, and
\* every request that has arrived is eventually answered.
C24_TerminatesWithBoundedCalls ==
  /\ [](\A r \in Reqs :
          /\ Len(callLog[r]) <= MaxCalls(kind[r])
          /\ pc[r] = "done" => resp[r].status \in {200, 500})
  /\ \A r \in Reqs : (pc[r] # "idle") ~> (pc[r] = "done")

\* C24 witness: an Extract-and-Enhance request is answered after two model
\* calls, the second of which failed at a boolean field
C24_Witness ==
  /\ pc[1] = "done" /\ kind[1] = "process" /\ Len(callLog[1]) = 2
  /\ BoolCoercionFailure(mock[1].enhance)
  /\ resp[1].status = 500

====
